---- MODULE Spec2Model ----
(***************************************************************************)
(* Model of icims_dashboard.py: the ICIMSConnector (authenticate and the   *)
(* three fetch operations), the RecruitmentDashboard (extract_data,        *)
(* _preprocess_data, calculate_metrics and the three chart operations) and *)
(* the Streamlit script create_streamlit_dashboard.                        *)
(*                                                                         *)
(* Conventions.                                                            *)
(*  - An optional value (None, NaN, NaT) is the empty sequence <<>>; a     *)
(*    present value v is <<v>> or, for a date, the triple <<y, m, d>>.     *)
(*  - A raw record is a function from field names to cells; a field the    *)
(*    API left out of a record is not in its DOMAIN.                       *)
(*  - A data frame is [columns, rows]; reading a column that is not in     *)
(*    columns is pandas' KeyError.                                         *)
(*  - An operation that can raise returns a record with a raised field.    *)
(*  - A mean is the pair <<sum, count>>; the number 0 is <<0, 1>>.         *)
(*  - Titles, recruiters and weeks are integers ordered as pandas orders   *)
(*    the values they stand for.                                           *)
(***************************************************************************)
EXTENDS Integers, Sequences, FiniteSets, TLC

\* ------------------------------------------------------------------ bounds
MaxJobs == 2
MaxCandidates == 2
MaxRefreshes == 2
MaxCalls == 3

\* ------------------------------------------------------- program constants
PositionRows == 15
TableRows == 20
RecruiterRows == 10
WindowDays == 30

NaN == <<>>
NoneValue == <<>>

\* ------------------------------------------------------------- sequences
RECURSIVE SumSeq(_)
SumSeq(s) == IF s = <<>> THEN 0 ELSE Head(s) + SumSeq(Tail(s))

Range(s) == {s[i] : i \in DOMAIN s}

Head_n(s, n) == SubSeq(s, 1, IF Len(s) < n THEN Len(s) ELSE n)

MinOf(S) == CHOOSE m \in S : \A k \in S : m <= k

RECURSIVE SortedKeys(_)
SortedKeys(S) == IF S = {} THEN <<>> ELSE <<MinOf(S)>> \o SortedKeys(S \ {MinOf(S)})

RECURSIVE SeqsUpTo(_, _)
SeqsUpTo(S, n) ==
  IF n = 0 THEN {<<>>}
  ELSE SeqsUpTo(S, n - 1) \cup {Append(s, e) : s \in {t \in SeqsUpTo(S, n - 1) : Len(t) = n - 1}, e \in S}

\* ----------------------------------------------------------------- dates
IsLeap(y) == (y % 4 = 0 /\ y % 100 # 0) \/ y % 400 = 0

DaysInMonth(y, m) ==
  IF m = 2 THEN (IF IsLeap(y) THEN 29 ELSE 28)
  ELSE IF m \in {4, 6, 9, 11} THEN 30 ELSE 31

\* pd.to_datetime(..., errors='coerce') on one cell: a calendar date stays, anything
\* else (None, NaN, a string that is no date) becomes NaT.
to_datetime(cell) ==
  IF /\ Len(cell) = 3
     /\ cell[2] \in 1..12
     /\ cell[3] \in 1..DaysInMonth(cell[1], cell[2])
  THEN cell ELSE NaN

\* Days since 1970-01-01 of a Timestamp at midnight (what Timestamp subtraction uses).
Ordinal(ts) ==
  LET y   == IF ts[2] <= 2 THEN ts[1] - 1 ELSE ts[1]
      era == y \div 400
      yoe == y - era * 400
      mp  == IF ts[2] > 2 THEN ts[2] - 3 ELSE ts[2] + 9
      doy == (153 * mp + 2) \div 5 + ts[3] - 1
      doe == yoe * 365 + yoe \div 4 - yoe \div 100 + doy
  IN era * 146097 + doe - 719468

\* (dateclosed - dateposted).dt.days on one row.
days_between_mutant(closed, posted) ==
  IF closed = NaN \/ posted = NaN THEN <<0>> ELSE <<Ordinal(closed) - Ordinal(posted)>>
days_between(closed, posted) ==
  IF closed = NaN \/ posted = NaN THEN NaN ELSE <<Ordinal(closed) - Ordinal(posted)>>

\* .dt.to_period('W'): weeks run Monday..Sunday; 1970-01-01 is a Thursday.
to_period_W(ts) == IF ts = NaN THEN NaN ELSE <<(Ordinal(ts) + 3) \div 7>>

\* .dt.to_period('M')
to_period_M(ts) == IF ts = NaN THEN NaN ELSE <<ts[1] * 12 + ts[2]>>

\* str(Period('W')): "<monday>/<sunday>", here the two day numbers.
week_str(w) == <<w * 7 - 3, w * 7 + 3>>

\* ----------------------------------------------------------- data frames
\* pd.DataFrame(list of dicts): the columns are the union of the keys, a missing
\* key is NaN.
DataFrame(records) ==
  LET cols == UNION {DOMAIN records[i] : i \in DOMAIN records}
  IN [columns |-> cols,
      rows |-> [i \in DOMAIN records |->
                  [c \in cols |-> IF c \in DOMAIN records[i] THEN records[i][c] ELSE NaN]]]

\* DataFrame.empty
Empty(df) == Len(df.rows) = 0 \/ df.columns = {}

HasColumns(df, cols) == cols \subseteq df.columns

\* Series.count(): the cells that are not null.
CountNotNull(rows, col) == Len(SelectSeq(rows, LAMBDA r : r[col] # NaN))

\* Series.mean(): NaN cells are skipped; the mean of nothing is NaN.
Mean(rows, col) ==
  LET vals == SelectSeq(rows, LAMBDA r : r[col] # NaN)
  IN IF vals = <<>> THEN NaN
     ELSE <<SumSeq([i \in DOMAIN vals |-> vals[i][col][1]]), Len(vals)>>

\* groupby(col): the group keys, sorted (sort=True), null keys dropped
\* (dropna=True).
GroupKeys_mutant(rows, col) ==
  LET present == SelectSeq(rows, LAMBDA r : r[col] # NaN)
      first(k) == MinOf({i \in DOMAIN present : present[i][col][1] = k})
      keys == {present[i][col][1] : i \in DOMAIN present}
      order == SortedKeys({first(k) : k \in keys})
  IN [i \in DOMAIN order |-> present[order[i]][col][1]]
GroupKeys(rows, col) ==
  SortedKeys({rows[i][col][1] : i \in {j \in DOMAIN rows : rows[j][col] # NaN}})

Group(rows, col, k) == SelectSeq(rows, LAMBDA r : r[col] = <<k>>)

\* ------------------------------------------------- RecruitmentDashboard
\* RecruitmentDashboard.__init__: both frames are None.
NewDashboard == [jobs_df |-> NoneValue, candidates_df |-> NoneValue]

JobDateColumns == {"dateposted", "dateclosed"}

\* df[col] = pd.to_datetime(df[col], errors='coerce') for the columns of cols that
\* the frame has.
ConvertDates(df, cols) ==
  [columns |-> df.columns,
   rows |-> [i \in DOMAIN df.rows |->
     [c \in df.columns |->
        IF c \in cols THEN to_datetime(df.rows[i][c]) ELSE df.rows[i][c]]]]

\* df['days_to_fill'] = (df['dateclosed'] - df['dateposted']).dt.days
AddDaysToFill(df) ==
  [columns |-> df.columns \cup {"days_to_fill"},
   rows |-> [i \in DOMAIN df.rows |->
     [c \in df.columns \cup {"days_to_fill"} |->
        IF c = "days_to_fill"
        THEN days_between(df.rows[i]["dateclosed"], df.rows[i]["dateposted"])
        ELSE df.rows[i][c]]]]

\* df['week'] and df['month'] from df['dateadded']
AddPeriods(df) ==
  [columns |-> df.columns \cup {"week", "month"},
   rows |-> [i \in DOMAIN df.rows |->
     [c \in df.columns \cup {"week", "month"} |->
        IF c = "week" THEN to_period_W(df.rows[i]["dateadded"])
        ELSE IF c = "month" THEN to_period_M(df.rows[i]["dateadded"])
        ELSE df.rows[i][c]]]]

\* _preprocess_data, the jobs block: the date columns that exist are converted, then
\* both are read to compute days_to_fill (a KeyError when one is no column).
PreprocessJobs(df) ==
  IF Empty(df) THEN [raised |-> FALSE, df |-> df]
  ELSE IF ~HasColumns(df, JobDateColumns)
  THEN [raised |-> TRUE, df |-> ConvertDates(df, JobDateColumns)]
  ELSE [raised |-> FALSE, df |-> AddDaysToFill(ConvertDates(df, JobDateColumns))]

\* _preprocess_data, the candidates block.
PreprocessCandidates(df) ==
  IF Empty(df) THEN [raised |-> FALSE, df |-> df]
  ELSE IF ~HasColumns(df, {"dateadded"})
  THEN [raised |-> TRUE, df |-> ConvertDates(df, {"dateadded"})]
  ELSE [raised |-> FALSE, df |-> AddPeriods(ConvertDates(df, {"dateadded"}))]

\* _preprocess_data on a dashboard whose two frames are set: an exception in the jobs
\* block leaves the candidates block unexecuted.
PreprocessData(d) ==
  LET j == PreprocessJobs(d.jobs_df[1])
      c == PreprocessCandidates(d.candidates_df[1])
  IN IF j.raised THEN [raised |-> TRUE, dashboard |-> [d EXCEPT !.jobs_df = <<j.df>>]]
     ELSE [raised |-> c.raised,
           dashboard |-> [jobs_df |-> <<j.df>>, candidates_df |-> <<c.df>>]]

JobMetricKeys == {"total_jobs", "open_jobs", "closed_jobs", "avg_time_to_fill"}
CandidateMetricKeys == {"total_candidates", "candidates_this_month", "top_source"}

CountWhere(rows, col, v) == Len(SelectSeq(rows, LAMBDA r : r[col] = <<v>>))

\* dateadded >= datetime.now() - timedelta(days=30); NaT compares False. now is
\* [date, later]: later is FALSE at midnight sharp and TRUE any time after it.
InWindow(ts, now) ==
  /\ ts # NaN
  /\ IF now.later THEN Ordinal(ts) > Ordinal(now.date) - WindowDays
     ELSE Ordinal(ts) >= Ordinal(now.date) - WindowDays

\* value_counts().index[0]: the most frequent non-null value, the first seen among
\* equals; 'N/A' when every value is null.
TopSource(rows) ==
  LET present == SelectSeq(rows, LAMBDA r : r["source"] # NaN)
      n(i) == CountWhere(present, "source", present[i]["source"][1])
      best == {i \in DOMAIN present : \A k \in DOMAIN present : n(k) <= n(i)}
  IN IF present = <<>> THEN "N/A" ELSE present[MinOf(best)]["source"][1]

\* mean() if not filled_jobs.empty else 0
AvgTimeToFill(rows) ==
  LET filled_jobs == SelectSeq(rows, LAMBDA r : r["days_to_fill"] # NaN)
  IN IF filled_jobs = <<>> THEN <<0, 1>> ELSE Mean(filled_jobs, "days_to_fill")

\* calculate_metrics: the dict it returns, as a function on the keys it sets.
CalculateMetrics(d, now) ==
  IF d.jobs_df = NoneValue \/ d.candidates_df = NoneValue
  THEN [raised |-> TRUE, metrics |-> <<>>]
  ELSE
    LET jobs == d.jobs_df[1]
        cands == d.candidates_df[1]
        jk == IF Empty(jobs) THEN {} ELSE JobMetricKeys
        ck == IF Empty(cands) THEN {} ELSE CandidateMetricKeys
    IN IF \/ ~Empty(jobs) /\ ~HasColumns(jobs, {"status", "days_to_fill"})
          \/ ~Empty(cands) /\ ~HasColumns(cands, {"dateadded", "source"})
       THEN [raised |-> TRUE, metrics |-> <<>>]
       ELSE [raised |-> FALSE,
             metrics |-> [k \in jk \cup ck |->
               CASE k = "total_jobs" -> Len(jobs.rows)
                 [] k = "open_jobs" -> CountWhere(jobs.rows, "status", "open")
                 [] k = "closed_jobs" -> CountWhere(jobs.rows, "status", "closed")
                 [] k = "avg_time_to_fill" -> AvgTimeToFill(jobs.rows)
                 [] k = "total_candidates" -> Len(cands.rows)
                 [] k = "candidates_this_month" ->
                      Len(SelectSeq(cands.rows, LAMBDA r : InWindow(r["dateadded"], now)))
                 [] k = "top_source" -> TopSource(cands.rows)]]

\* go.Figure(): no traces, and no table was built.
EmptyFigure == [raised |-> FALSE, table |-> <<>>, data |-> <<>>]
RaisedFigure == [raised |-> TRUE, table |-> <<>>, data |-> <<>>]

\* groupby('title').agg({'id': 'count', 'days_to_fill': 'mean', 'status': open}):
\* the row of one title.
PositionRow(rows, title) ==
  [Position |-> title,
   Total_Jobs |-> CountNotNull(Group(rows, "title", title), "id"),
   Avg_Days_to_Fill |-> Mean(Group(rows, "title", title), "days_to_fill"),
   Open_Jobs |-> CountWhere(Group(rows, "title", title), "status", "open")]

PositionMetrics(rows, keys) ==
  Head_n([i \in DOMAIN keys |-> PositionRow(rows, keys[i])], PositionRows)

\* create_position_metrics_chart: position_metrics and the two bar traces.
PositionFigure(t) ==
  [raised |-> FALSE,
   table |-> t,
   data |-> <<[x |-> [i \in DOMAIN t |-> t[i].Position],
               y |-> [i \in DOMAIN t |-> t[i].Total_Jobs]],
              [x |-> [i \in DOMAIN t |-> t[i].Position],
               y |-> [i \in DOMAIN t |-> t[i].Avg_Days_to_Fill]]>>]

CreatePositionMetricsChart(d) ==
  IF d.jobs_df = NoneValue THEN RaisedFigure
  ELSE IF Empty(d.jobs_df[1]) THEN EmptyFigure
  ELSE IF ~HasColumns(d.jobs_df[1], {"title", "id", "days_to_fill", "status"}) THEN RaisedFigure
  ELSE PositionFigure(PositionMetrics(d.jobs_df[1].rows, GroupKeys(d.jobs_df[1].rows, "title")))

\* fillna(0) on a count and on a mean.
FillNa(cell) == IF cell = NaN THEN 0 ELSE cell[1]
FillNaMean(cell) == IF cell = NaN THEN <<0, 1>> ELSE cell

\* pd.merge(..., on='Recruiter', how='outer'): the union of the keys, sorted.
MergeKeys_mutant(left, right) == left
MergeKeys(left, right) == SortedKeys(Range(left) \cup Range(right))

\* One row of the merge: the job aggregates and the candidate count of recruiter k,
\* NaN on the side that has no such recruiter.
MergedRow(jrows, crows, jkeys, ckeys, k) ==
  [Recruiter |-> k,
   Total_Jobs |-> IF k \in Range(jkeys)
                  THEN <<CountNotNull(Group(jrows, "recruiter", k), "id")>> ELSE NaN,
   Avg_Days_to_Fill |-> IF k \in Range(jkeys)
                        THEN Mean(Group(jrows, "recruiter", k), "days_to_fill") ELSE NaN,
   Total_Candidates |-> IF k \in Range(ckeys)
                        THEN <<Len(Group(crows, "recruiter", k))>> ELSE NaN]

\* .fillna(0) on a row, and the efficiency series as a column of it.
FilledRow(row) ==
  [Recruiter |-> row.Recruiter,
   Total_Jobs |-> FillNa(row.Total_Jobs),
   Avg_Days_to_Fill |-> FillNaMean(row.Avg_Days_to_Fill),
   Total_Candidates |-> FillNa(row.Total_Candidates),
   efficiency |-> <<FillNa(row.Total_Candidates), FillNa(row.Total_Jobs) + 1>>]

RecruiterMetrics(jrows, crows, jkeys, ckeys, keys) ==
  Head_n([i \in DOMAIN keys |-> FilledRow(MergedRow(jrows, crows, jkeys, ckeys, keys[i]))],
         RecruiterRows)

RecruiterFigure(t) ==
  [raised |-> FALSE,
   table |-> t,
   data |-> <<[x |-> [i \in DOMAIN t |-> t[i].Recruiter],
               y |-> [i \in DOMAIN t |-> t[i].Total_Jobs]],
              [x |-> [i \in DOMAIN t |-> t[i].Recruiter],
               y |-> [i \in DOMAIN t |-> t[i].Total_Candidates]],
              [x |-> [i \in DOMAIN t |-> t[i].Recruiter],
               y |-> [i \in DOMAIN t |-> t[i].Avg_Days_to_Fill]],
              [x |-> [i \in DOMAIN t |-> t[i].Recruiter],
               y |-> [i \in DOMAIN t |-> t[i].efficiency]]>>]

\* create_recruiter_metrics_chart: recruiter_metrics (with the efficiency series as a
\* column) and the four bar traces.
CreateRecruiterMetricsChart(d) ==
  IF d.jobs_df = NoneValue \/ d.candidates_df = NoneValue THEN RaisedFigure
  ELSE IF Empty(d.jobs_df[1]) \/ Empty(d.candidates_df[1]) THEN EmptyFigure
  ELSE IF \/ ~HasColumns(d.jobs_df[1], {"recruiter", "id", "days_to_fill"})
          \/ ~HasColumns(d.candidates_df[1], {"recruiter"}) THEN RaisedFigure
  ELSE
    LET jkeys == GroupKeys(d.jobs_df[1].rows, "recruiter")
        ckeys == GroupKeys(d.candidates_df[1].rows, "recruiter")
    IN RecruiterFigure(RecruiterMetrics(d.jobs_df[1].rows, d.candidates_df[1].rows,
                                        jkeys, ckeys, MergeKeys(jkeys, ckeys)))

\* groupby('week').size().reset_index() with the week_str column.
WeeklyData(rows, keys) ==
  [i \in DOMAIN keys |->
     [week |-> keys[i], n |-> Len(Group(rows, "week", keys[i])), week_str |-> week_str(keys[i])]]

TimelineFigure(t) ==
  [raised |-> FALSE,
   table |-> t,
   data |-> <<[x |-> [i \in DOMAIN t |-> t[i].week_str],
               y |-> [i \in DOMAIN t |-> t[i].n]]>>]

\* create_timeline_chart: weekly_data and the scatter trace.
CreateTimelineChart(d) ==
  IF d.candidates_df = NoneValue THEN RaisedFigure
  ELSE IF Empty(d.candidates_df[1]) THEN EmptyFigure
  ELSE IF ~HasColumns(d.candidates_df[1], {"week"}) THEN RaisedFigure
  ELSE TimelineFigure(WeeklyData(d.candidates_df[1].rows,
                                 GroupKeys(d.candidates_df[1].rows, "week")))

\* ------------------------------------------------------- ICIMSConnector
\* ICIMSConnector.__init__: no token, no Authorization header on the session.
NewConnector == [auth_token |-> NoneValue, authorization |-> NoneValue]

\* Python truthiness of auth_token: None and '' are false.
Truthy(token) == token # NoneValue /\ token # <<"">>

\* What the remote end can answer to the POST of authenticate. token is the value of
\* access_token in a JSON mapping: <<>> when the key is missing (or null).
FailureKinds == {"conn_error", "http_error", "not_json", "not_mapping"}

AuthResponses(kinds) ==
  {[kind |-> k, token |-> NoneValue] : k \in kinds}
  \cup {[kind |-> "mapping", token |-> t] : t \in {NoneValue, <<"">>, <<"tok">>}}

\* What the remote end can answer to a data GET: has_key says whether the JSON
\* mapping holds the key the operation reads ('jobs', 'candidates', 'steps').
DataResponses(kinds, payloads) ==
  {[kind |-> k, has_key |-> FALSE, items |-> <<>>] : k \in kinds \cup {"mapping"}}
  \cup {[kind |-> "mapping", has_key |-> TRUE, items |-> p] : p \in payloads}

\* How a request ends inside `try: ... except RequestException`.
\*   conn_error, http_error: session.post/get or raise_for_status raises a
\*     RequestException, which is caught;
\*   not_json: response.json() raises requests.exceptions.JSONDecodeError, which
\*     is a RequestException (requests 2.27 and later) and is caught;
\*   not_mapping: .get on a list, string or number raises AttributeError.
Outcome(kind) ==
  CASE kind \in {"conn_error", "http_error", "not_json"} -> "caught"
    [] kind = "not_mapping" -> "propagates"
    [] kind = "mapping" -> "ok"

\* authenticate
Authenticate(conn, resp) ==
  CASE Outcome(resp.kind) = "caught" ->
         [conn |-> conn, ret |-> FALSE, raised |-> FALSE, reported |-> TRUE]
    [] Outcome(resp.kind) = "propagates" ->
         [conn |-> conn, ret |-> FALSE, raised |-> TRUE, reported |-> FALSE]
    [] Outcome(resp.kind) = "ok" ->
         [conn |-> [auth_token |-> resp.token, authorization |-> <<"Bearer", resp.token>>],
          ret |-> TRUE, raised |-> FALSE, reported |-> FALSE]

\* The body shared by get_jobs, get_candidates and get_workflow_steps: authenticate
\* when there is no token, then GET and read the operation's key. auth_sent and
\* get_sent count the requests issued, auth_ok says authenticate returned True.
Fetch(conn, auth_resp, data_resp) ==
  LET need == ~Truthy(conn.auth_token)
      a == Authenticate(conn, auth_resp)
      c == IF need THEN a.conn ELSE conn
      sent == IF need THEN 1 ELSE 0
      base == [conn |-> c, result |-> <<>>, raised |-> FALSE, reported |-> FALSE,
               auth_sent |-> sent, auth_ok |-> need /\ ~a.raised /\ a.ret, get_sent |-> 0]
  IN IF need /\ a.raised THEN [base EXCEPT !.raised = TRUE]
     ELSE IF need /\ ~a.ret THEN [base EXCEPT !.reported = a.reported]
     ELSE CASE Outcome(data_resp.kind) = "caught" ->
                 [base EXCEPT !.reported = TRUE, !.get_sent = 1]
            [] Outcome(data_resp.kind) = "propagates" ->
                 [base EXCEPT !.raised = TRUE, !.get_sent = 1]
            [] Outcome(data_resp.kind) = "ok" ->
                 [base EXCEPT !.get_sent = 1,
                              !.result = IF data_resp.has_key THEN data_resp.items ELSE <<>>]

get_jobs(conn, auth_resp, data_resp) == Fetch(conn, auth_resp, data_resp)
get_candidates(conn, auth_resp, data_resp) == Fetch(conn, auth_resp, data_resp)
get_workflow_steps(conn, auth_resp, data_resp) == Fetch(conn, auth_resp, data_resp)

\* extract_data on a new dashboard over connector conn: the two fetches, the two
\* frames, _preprocess_data. An exception leaves the dashboard as far as it got.
\* a1/a2 answer the authenticate of each fetch (unused when none is sent).
extract_data(conn, a1, jobs_resp, a2, candidates_resp) ==
  LET j == get_jobs(conn, a1, jobs_resp)
      d1 == [NewDashboard EXCEPT !.jobs_df = <<DataFrame(j.result)>>]
      c == get_candidates(j.conn, a2, candidates_resp)
      d2 == [d1 EXCEPT !.candidates_df = <<DataFrame(c.result)>>]
      p == PreprocessData(d2)
  IN IF j.raised
     THEN [raised |-> TRUE, dashboard |-> NewDashboard,
           jobs_reported |-> FALSE, candidates_reported |-> FALSE]
     ELSE IF c.raised
     THEN [raised |-> TRUE, dashboard |-> d1,
           jobs_reported |-> j.reported, candidates_reported |-> FALSE]
     ELSE [raised |-> p.raised, dashboard |-> p.dashboard,
           jobs_reported |-> j.reported, candidates_reported |-> c.reported]

\* ---------------------------------------------------------------- inputs
\* A builder's mark for "the record has no such key".
Absent == <<-1>>

BadDate == <<2024, 2, 30>>

\* A job record of the API. title and recruiter are codes, status a string.
JobRecord(title, status, recruiter, posted, closed) ==
  [k \in {"title", "status", "recruiter"}
         \cup (IF posted = Absent THEN {} ELSE {"dateposted"})
         \cup (IF closed = Absent THEN {} ELSE {"dateclosed"}) |->
     CASE k = "title" -> <<title>>
       [] k = "status" -> <<status>>
       [] k = "recruiter" -> <<recruiter>>
       [] k = "dateposted" -> posted
       [] k = "dateclosed" -> closed]

\* A candidate record of the API.
CandidateRecord(source, recruiter, added) ==
  [k \in {"source", "recruiter"} \cup (IF added = Absent THEN {} ELSE {"dateadded"}) |->
     CASE k = "source" -> source
       [] k = "recruiter" -> <<recruiter>>
       [] k = "dateadded" -> added]

\* The records of a response get the ids 1, 2, ... in order.
WithIds(records) ==
  [i \in DOMAIN records |->
     [k \in DOMAIN records[i] \cup {"id"} |-> IF k = "id" THEN <<i>> ELSE records[i][k]]]

PostedCells == {Absent, BadDate, <<2024, 1, 1>>, <<2024, 1, 11>>}
ClosedCells == {Absent, NoneValue, <<2023, 12, 25>>, <<2024, 1, 11>>}
AddedCells == {Absent, NoneValue, BadDate, <<2023, 12, 25>>, <<2024, 1, 1>>,
               <<2024, 1, 3>>, <<2024, 1, 11>>}

\* Jobs that differ in their dates, and jobs that differ in title, status, recruiter.
DateJobs == {JobRecord(1, "closed", 1, p, c) : p \in PostedCells, c \in ClosedCells}
GroupJobs == {JobRecord(t, s, r, <<2024, 1, 1>>, <<2024, 1, 11>>) :
                t \in {1, 2}, s \in {"open", "closed", "other"}, r \in {1, 2}}
JoinJobs == {JobRecord(1, "open", r, <<2024, 1, 1>>, c) :
               r \in {1, 2}, c \in {NoneValue, <<2024, 1, 11>>}}

DateCandidates == {CandidateRecord(<<"Referral">>, 1, a) : a \in AddedCells}
GroupCandidates == {CandidateRecord(s, r, <<2024, 1, 1>>) :
                      s \in {NoneValue, <<"Referral">>, <<"LinkedIn">>}, r \in {1, 2, 3}}
JoinCandidates == {CandidateRecord(<<"Referral">>, r, <<2024, 1, 3>>) : r \in {1, 2, 3}}

OneJob == <<JobRecord(1, "open", 1, <<2024, 1, 1>>, NoneValue)>>
OneCandidate == <<CandidateRecord(<<"Referral">>, 1, <<2024, 1, 3>>)>>

\* n jobs with the titles (or recruiters) n, n-1, ..., 1, then one more job with
\* title (recruiter) extra when extra > 0: more groups than a chart keeps.
WideJobs(n, extra, byTitle) ==
  [i \in 1..(IF extra > 0 THEN n + 1 ELSE n) |->
     LET code == IF i > n THEN extra ELSE n + 1 - i
     IN IF byTitle THEN JobRecord(code, "open", 1, <<2024, 1, 1>>, <<2024, 1, 11>>)
        ELSE JobRecord(1, "open", code, <<2024, 1, 1>>, <<2024, 1, 11>>)]

WidePositionJobs ==
  {WideJobs(n, e, TRUE) : n \in {PositionRows, PositionRows + 1}, e \in {0, 1, PositionRows + 1}}
WideRecruiterJobs ==
  {WideJobs(n, 0, FALSE) : n \in {RecruiterRows - 1, RecruiterRows, RecruiterRows + 1}}
WideRecruiterCandidates ==
  {<<CandidateRecord(<<"Referral">>, r, <<2024, 1, 3>>)>> : r \in {1, RecruiterRows + 2}}

\* Recruiter 1 with 2 jobs and 5 candidates, recruiter 2 with no job and 3 candidates.
ExampleJobs == [i \in 1..2 |-> JobRecord(i, "open", 1, <<2024, 1, 1>>, <<2024, 1, 11>>)]
ExampleCandidates ==
  [i \in 1..8 |-> CandidateRecord(<<"Referral">>, IF i <= 5 THEN 1 ELSE 2, <<2024, 1, 3>>)]

\* The (jobs_data, candidates_data) pairs the engine is run on.
EngineInputs ==
  (SeqsUpTo(DateJobs \cup GroupJobs, MaxJobs) \X {<<>>, OneCandidate})
  \cup ({<<>>, OneJob} \X SeqsUpTo(DateCandidates \cup GroupCandidates, MaxCandidates))
  \cup (SeqsUpTo(JoinJobs, MaxJobs) \X SeqsUpTo(JoinCandidates, MaxCandidates))
  \cup (WidePositionJobs \X {OneCandidate})
  \cup (WideRecruiterJobs \X WideRecruiterCandidates)
  \cup {<<ExampleJobs, ExampleCandidates>>}

\* datetime.now(): the day, and whether it is later than midnight sharp.
NowChoices == {[date |-> <<2024, 1, 31>>, later |-> l] : l \in BOOLEAN}

\* ----------------------------------------------------------------- state
VARIABLES
  raw_jobs, raw_candidates,   \* what get_jobs and get_candidates returned
  dashboard,                  \* the RecruitmentDashboard: jobs_df, candidates_df
  pc,                         \* where the fetch-then-aggregate pass stands
  metrics, position_chart, timeline_chart, recruiter_chart,
                              \* what the aggregate operations last returned
  session, refreshes, page,   \* st.session_state['dashboard'], refreshes done, the page
  last_refresh,               \* how the last "Connect & Refresh Data" ended
  connector, calls, auth_posts, auth_true, data_gets, last_call

vars == <<raw_jobs, raw_candidates, dashboard, pc, metrics, position_chart,
          timeline_chart, recruiter_chart, session, refreshes, page, last_refresh,
          connector, calls, auth_posts, auth_true, data_gets, last_call>>

engine_vars == <<raw_jobs, raw_candidates, dashboard, pc>>
result_vars == <<metrics, position_chart, timeline_chart, recruiter_chart>>
script_vars == <<session, refreshes, page, last_refresh>>
connector_vars == <<connector, calls, auth_posts, auth_true, data_gets, last_call>>

NoCall == [op |-> "none", auth_kind |-> "none", auth_token |-> NoneValue, data_kind |-> "none",
           result |-> <<>>, raised |-> FALSE, reported |-> FALSE,
           auth_sent |-> 0, auth_ok |-> FALSE, get_sent |-> 0,
           authenticated_before |-> FALSE]
NoPage == [kind |-> "none", gen |-> 0, total_jobs |-> 0, open_jobs |-> 0,
           total_candidates |-> 0, avg_time_to_fill |-> <<0, 1>>,
           jobs_table |-> <<>>, candidates_table |-> <<>>]
NoRefresh == [button |-> "none", raised |-> FALSE,
              jobs_reported |-> FALSE, candidates_reported |-> FALSE]

ResultsInit ==
  /\ metrics = <<>>
  /\ position_chart = EmptyFigure
  /\ timeline_chart = EmptyFigure
  /\ recruiter_chart = EmptyFigure

ScriptIdle ==
  /\ session = NoneValue
  /\ refreshes = 0
  /\ page = NoPage
  /\ last_refresh = NoRefresh

ConnectorIdle ==
  /\ connector = NewConnector
  /\ calls = 0
  /\ auth_posts = 0
  /\ auth_true = 0
  /\ data_gets = 0
  /\ last_call = NoCall

\* ------------------------------------------- the fetch-then-aggregate pass
\* One pass over data the adapter returned: extract_data's frames and
\* _preprocess_data, then the aggregate operations in the order the page calls them.
EngineInit ==
  /\ \E in \in EngineInputs :
       /\ raw_jobs = WithIds(in[1])
       /\ raw_candidates = WithIds(in[2])
  /\ dashboard = NewDashboard
  /\ pc = "extract"
  /\ ResultsInit
  /\ ScriptIdle
  /\ ConnectorIdle

Extract ==
  /\ pc = "extract"
  /\ LET p == PreprocessData([jobs_df |-> <<DataFrame(raw_jobs)>>,
                              candidates_df |-> <<DataFrame(raw_candidates)>>])
     IN /\ dashboard' = p.dashboard
        /\ pc' = IF p.raised THEN "raised" ELSE "metrics"
  /\ UNCHANGED <<raw_jobs, raw_candidates, result_vars, script_vars, connector_vars>>

Metrics ==
  /\ pc = "metrics"
  /\ \E now \in NowChoices :
       LET m == CalculateMetrics(dashboard, now)
       IN /\ metrics' = m.metrics
          /\ pc' = IF m.raised THEN "raised" ELSE "position"
  /\ UNCHANGED <<raw_jobs, raw_candidates, dashboard, position_chart, timeline_chart,
                 recruiter_chart, script_vars, connector_vars>>

Position ==
  /\ pc = "position"
  /\ position_chart' = CreatePositionMetricsChart(dashboard)
  /\ pc' = IF position_chart'.raised THEN "raised" ELSE "timeline"
  /\ UNCHANGED <<raw_jobs, raw_candidates, dashboard, metrics, timeline_chart,
                 recruiter_chart, script_vars, connector_vars>>

Timeline ==
  /\ pc = "timeline"
  /\ timeline_chart' = CreateTimelineChart(dashboard)
  /\ pc' = IF timeline_chart'.raised THEN "raised" ELSE "recruiter"
  /\ UNCHANGED <<raw_jobs, raw_candidates, dashboard, metrics, position_chart,
                 recruiter_chart, script_vars, connector_vars>>

Recruiter ==
  /\ pc = "recruiter"
  /\ recruiter_chart' = CreateRecruiterMetricsChart(dashboard)
  /\ pc' = IF recruiter_chart'.raised THEN "raised" ELSE "done"
  /\ UNCHANGED <<raw_jobs, raw_candidates, dashboard, metrics, position_chart,
                 timeline_chart, script_vars, connector_vars>>

EngineNext == Extract \/ Metrics \/ Position \/ Timeline \/ Recruiter

SpecEngine == EngineInit /\ [][EngineNext]_vars

\* ------------------------------------------------- properties: the engine
Normalized == pc \in {"metrics", "position", "timeline", "recruiter", "done"}
MetricsDone == pc \in {"position", "timeline", "recruiter", "done"}
PositionDone == pc \in {"timeline", "recruiter", "done"}
TimelineDone == pc \in {"recruiter", "done"}

\* The calendar, day by day: the next day, the order of two dates, and the signed
\* number of days from a to b.
NextDay(d) ==
  IF d[3] < DaysInMonth(d[1], d[2]) THEN <<d[1], d[2], d[3] + 1>>
  ELSE IF d[2] < 12 THEN <<d[1], d[2] + 1, 1>>
  ELSE <<d[1] + 1, 1, 1>>

Before(a, b) ==
  \/ a[1] < b[1]
  \/ a[1] = b[1] /\ a[2] < b[2]
  \/ a[1] = b[1] /\ a[2] = b[2] /\ a[3] < b[3]

RECURSIVE StepsTo(_, _)
StepsTo(a, b) == IF a = b THEN 0 ELSE 1 + StepsTo(NextDay(a), b)

CalendarDays(a, b) == IF Before(b, a) THEN 0 - StepsTo(b, a) ELSE StepsTo(a, b)

RawCell(record, key) == IF key \in DOMAIN record THEN record[key] ELSE NaN

JobRows == dashboard.jobs_df[1].rows
CandidateRows == dashboard.candidates_df[1].rows

\* C2: with both datasets empty calculate_metrics returns total_jobs, open_jobs,
\* closed_jobs, total_candidates, candidates_this_month and avg_time_to_fill equal
\* to 0 and top_source equal to "N/A"; with one dataset empty, the keys derived from
\* it are still there with these values.
C2_EmptyInputGivesZeroMetrics ==
  MetricsDone =>
    /\ raw_jobs = <<>> =>
         /\ JobMetricKeys \subseteq DOMAIN metrics
         /\ metrics["total_jobs"] = 0
         /\ metrics["open_jobs"] = 0
         /\ metrics["closed_jobs"] = 0
         /\ metrics["avg_time_to_fill"] = <<0, 1>>
    /\ raw_candidates = <<>> =>
         /\ CandidateMetricKeys \subseteq DOMAIN metrics
         /\ metrics["total_candidates"] = 0
         /\ metrics["candidates_this_month"] = 0
         /\ metrics["top_source"] = "N/A"

\* A date field of a record that is absent, null or no calendar date.
BadDateField(record, key) == to_datetime(RawCell(record, key)) = NaN

HasBadDate ==
  \/ \E i \in DOMAIN raw_jobs : \E k \in JobDateColumns : BadDateField(raw_jobs[i], k)
  \/ \E i \in DOMAIN raw_candidates : BadDateField(raw_candidates[i], "dateadded")

\* C3: a non-empty dataset with a malformed or absent date field (also when no
\* record has the field) never makes _preprocess_data or a later aggregate raise:
\* the value is missing, the job has no days_to_fill and the candidate no week.
C3_BadDatesNeverRaise ==
  HasBadDate =>
    /\ pc # "raised"
    /\ Normalized =>
         /\ \A i \in DOMAIN raw_jobs :
              (\E k \in JobDateColumns : BadDateField(raw_jobs[i], k))
                => JobRows[i]["days_to_fill"] = NaN
         /\ \A i \in DOMAIN raw_candidates :
              BadDateField(raw_candidates[i], "dateadded") => CandidateRows[i]["week"] = NaN

\* The jobs whose days_to_fill is defined.
Filled == {i \in DOMAIN raw_jobs : JobRows[i]["days_to_fill"] # NaN}

RECURSIVE SumOver(_, _)
SumOver(S, f) ==
  IF S = {} THEN 0 ELSE LET i == CHOOSE k \in S : TRUE IN f[i] + SumOver(S \ {i}, f)

Recruiters(records) == {records[i]["recruiter"][1] : i \in DOMAIN records}
JobsOf(r) == {i \in DOMAIN raw_jobs : raw_jobs[i]["recruiter"] = <<r>>}
CandidatesOf(r) == {i \in DOMAIN raw_candidates : raw_candidates[i]["recruiter"] = <<r>>}
Smaller(a, b) == IF a < b THEN a ELSE b

\* The per-recruiter table as a full outer join of the two datasets.
RecruiterJoin ==
  LET t == recruiter_chart.table
      all == Recruiters(raw_jobs) \cup Recruiters(raw_candidates)
  IN /\ Len(t) = Smaller(Cardinality(all), RecruiterRows)
     /\ \A i \in DOMAIN t : t[i].Recruiter \in all
     /\ \A i, j \in DOMAIN t : t[i].Recruiter = t[j].Recruiter => i = j
     /\ \A i \in DOMAIN t :
          /\ JobsOf(t[i].Recruiter) = {} =>
               t[i].Total_Jobs = 0 /\ t[i].Avg_Days_to_Fill = <<0, 1>>
          /\ CandidatesOf(t[i].Recruiter) = {} => t[i].Total_Candidates = 0
          /\ t[i].efficiency[1] * (t[i].Total_Jobs + 1)
               = t[i].Total_Candidates * t[i].efficiency[2]
          /\ t[i].efficiency[2] > 0

\* C5 as stated: the per-recruiter table is a full outer join: every recruiter of
\* the jobs or of the candidates has exactly one row (the first 10 rows are kept), a
\* recruiter without jobs has total_jobs 0 and avg_days_to_fill 0, one without
\* candidates has total_candidates 0, efficiency is
\* total_candidates / (total_jobs + 1); also when one of the two datasets is empty.
C5_RecruiterOuterJoinAlways == pc = "done" => RecruiterJoin

\* C5 as amended: the same when both datasets are non-empty; when either is empty
\* create_recruiter_metrics_chart returns an empty figure and builds no table.
C5_RecruiterOuterJoin ==
  pc = "done" =>
    IF raw_jobs = <<>> \/ raw_candidates = <<>>
    THEN recruiter_chart = EmptyFigure
    ELSE /\ RecruiterJoin
         /\ Len(recruiter_chart.data) = 4
         /\ recruiter_chart.data[4].y =
              [i \in DOMAIN recruiter_chart.table |-> recruiter_chart.table[i].efficiency]

\* Recruiter 1 has 2 jobs and 5 candidates, recruiter 2 has 3 candidates and no job:
\* two rows, efficiency 5/3 and 3/1.
C5_Witness ==
  /\ pc = "done"
  /\ Cardinality(JobsOf(1)) = 2 /\ Cardinality(CandidatesOf(1)) = 5
  /\ JobsOf(2) = {} /\ Cardinality(CandidatesOf(2)) = 3
  /\ Len(recruiter_chart.table) = 2
  /\ recruiter_chart.table[1].efficiency = <<5, 3>>
  /\ recruiter_chart.table[2].Recruiter = 2
  /\ recruiter_chart.table[2].Total_Jobs = 0
  /\ recruiter_chart.table[2].efficiency = <<3, 1>>

Titles == {raw_jobs[i]["title"][1] : i \in DOMAIN raw_jobs}
JobsTitled(t) == {i \in DOMAIN raw_jobs : raw_jobs[i]["title"] = <<t>>}
FirstJobTitled(t) == MinOf(JobsTitled(t))

\* C6: the per-position table has one row per title with total_jobs the number of
\* jobs of that title and open_jobs the number of them that are open; the rows are
\* in the order the titles first appear in the jobs; of more than 15 titles the 15
\* with the most jobs are kept.
C6_PositionsByFirstAppearance ==
  PositionDone =>
    LET t == position_chart.table
        kept == {t[i].Position : i \in DOMAIN t}
    IN /\ Len(t) = Smaller(Cardinality(Titles), PositionRows)
       /\ kept \subseteq Titles
       /\ \A i, j \in DOMAIN t : t[i].Position = t[j].Position => i = j
       /\ \A i \in DOMAIN t :
            /\ t[i].Total_Jobs = Cardinality(JobsTitled(t[i].Position))
            /\ t[i].Open_Jobs = Cardinality({k \in JobsTitled(t[i].Position) :
                                               raw_jobs[k]["status"] = <<"open">>})
       /\ \A i, j \in DOMAIN t :
            i < j => FirstJobTitled(t[i].Position) < FirstJobTitled(t[j].Position)
       /\ \A k \in kept : \A d \in Titles \ kept :
            Cardinality(JobsTitled(d)) <= Cardinality(JobsTitled(k))

\* The candidates whose dateadded parsed, and those of them in week w.
Dated == {i \in DOMAIN raw_candidates : CandidateRows[i]["dateadded"] # NaN}
InWeek(w) == {i \in Dated : CandidateRows[i]["week"] = <<w>>}

\* C7: weekly_data lists each week once, in increasing chronological order whatever
\* the order of the candidates; each count is the number of candidates whose
\* dateadded is in that week, and the counts add up to the number of candidates
\* with a parseable dateadded.
C7_WeeklyCountsChronological ==
  (TimelineDone /\ raw_candidates # <<>>) =>
    LET t == timeline_chart.table
    IN /\ \A i, j \in DOMAIN t : i < j => t[i].week < t[j].week
       /\ \A i, j \in DOMAIN t : i < j =>
            \A a \in InWeek(t[i].week) : \A b \in InWeek(t[j].week) :
              Before(CandidateRows[a]["dateadded"], CandidateRows[b]["dateadded"])
       /\ \A i \in DOMAIN t : t[i].n = Cardinality(InWeek(t[i].week)) /\ t[i].n > 0
       /\ \A k \in Dated : \E i \in DOMAIN t : CandidateRows[k]["week"] = <<t[i].week>>
       /\ SumSeq([i \in DOMAIN t |-> t[i].n]) = Cardinality(Dated)
       /\ timeline_chart.data[1].y = [i \in DOMAIN t |-> t[i].n]
       /\ timeline_chart.data[1].x = [i \in DOMAIN t |-> t[i].week_str]

\* The later candidate comes first in the input, a third value does not parse: two
\* weeks, the earlier one first.
C7_Witness ==
  /\ pc = "done"
  /\ Len(raw_candidates) = 2
  /\ RawCell(raw_candidates[1], "dateadded") = <<2024, 1, 11>>
  /\ RawCell(raw_candidates[2], "dateadded") = <<2023, 12, 25>>
  /\ Len(timeline_chart.table) = 2
  /\ timeline_chart.table[1].n = 1
  /\ InWeek(timeline_chart.table[1].week) = {2}

\* ------------------------------------------------- the Streamlit script
\* metrics.get(key, default)
Get(m, key, default) == IF key \in DOMAIN m THEN m[key] ELSE default

\* The page of a run that shows the held dashboard sess: the four st.metric and the
\* two tables (nothing past the point where an operation raised).
DashboardPage(sess, m, failed) ==
  [kind |-> IF failed THEN "error" ELSE "dashboard",
   gen |-> sess[1].gen,
   total_jobs |-> Get(m, "total_jobs", 0),
   open_jobs |-> Get(m, "open_jobs", 0),
   total_candidates |-> Get(m, "total_candidates", 0),
   avg_time_to_fill |-> Get(m, "avg_time_to_fill", <<0, 1>>),
   jobs_table |-> IF failed \/ Empty(sess[1].dashboard.jobs_df[1]) THEN <<>>
                  ELSE Head_n(sess[1].dashboard.jobs_df[1].rows, TableRows),
   candidates_table |-> IF failed \/ Empty(sess[1].dashboard.candidates_df[1]) THEN <<>>
                        ELSE Head_n(sess[1].dashboard.candidates_df[1].rows, TableRows)]

\* What the remote end answers in the script's runs.
ScriptKinds == {"http_error", "not_json", "not_mapping"}
ScriptJobPayloads ==
  {WithIds(p) : p \in {<<>>, OneJob,
                       <<JobRecord(1, "closed", 1, <<2024, 1, 1>>, <<2024, 1, 11>>)>>,
                       <<JobRecord(2, "open", 2, <<2024, 1, 1>>, Absent)>>}}
ScriptCandidatePayloads ==
  {WithIds(p) : p \in {<<>>, OneCandidate,
                       <<CandidateRecord(<<"LinkedIn">>, 2, <<2024, 1, 11>>),
                         CandidateRecord(NoneValue, 1, BadDate)>>}}

\* The "Main dashboard" block: without a held dashboard the st.info page; with one,
\* calculate_metrics, the charts in the order the page calls them, the tables. An
\* exception ends the script run where it is raised.
ShowPage(sess, now) ==
  IF sess = NoneValue
  THEN /\ metrics' = <<>>
       /\ position_chart' = EmptyFigure
       /\ timeline_chart' = EmptyFigure
       /\ recruiter_chart' = EmptyFigure
       /\ page' = [NoPage EXCEPT !.kind = "info"]
  ELSE LET m == CalculateMetrics(sess[1].dashboard, now)
       IN /\ metrics' = m.metrics
          /\ position_chart' = IF m.raised THEN EmptyFigure
                               ELSE CreatePositionMetricsChart(sess[1].dashboard)
          /\ timeline_chart' = IF m.raised \/ position_chart'.raised THEN EmptyFigure
                               ELSE CreateTimelineChart(sess[1].dashboard)
          /\ recruiter_chart' =
               IF m.raised \/ position_chart'.raised \/ timeline_chart'.raised
               THEN EmptyFigure ELSE CreateRecruiterMetricsChart(sess[1].dashboard)
          /\ page' = DashboardPage(sess, metrics',
                                   \/ m.raised
                                   \/ position_chart'.raised
                                   \/ timeline_chart'.raised
                                   \/ recruiter_chart'.raised)

\* st.session_state['dashboard'] after the button's try block: the new dashboard
\* when extract_data returned, the old entry when it raised.
StoreDashboard_mutant(old, x, gen) == <<[dashboard |-> x.dashboard, gen |-> gen]>>
StoreDashboard(old, x, gen) ==
  IF x.raised THEN old ELSE <<[dashboard |-> x.dashboard, gen |-> gen]>>

ScriptInit ==
  /\ ScriptIdle
  /\ ResultsInit
  /\ raw_jobs = <<>>
  /\ raw_candidates = <<>>
  /\ dashboard = NewDashboard
  /\ pc = "script"
  /\ connector = NewConnector
  /\ calls = 0
  /\ auth_posts = 0
  /\ auth_true = 0
  /\ data_gets = 0
  /\ last_call = NoCall

\* A script run without the button (the first load, any other widget).
Rerun ==
  /\ pc = "script"
  /\ \E now \in NowChoices : ShowPage(session, now)
  /\ last_refresh' = NoRefresh
  /\ UNCHANGED <<engine_vars, session, refreshes, connector_vars>>

\* The button with a configuration field left empty: st.error, nothing is fetched.
ButtonIncomplete ==
  /\ pc = "script"
  /\ \E now \in NowChoices : ShowPage(session, now)
  /\ last_refresh' = [NoRefresh EXCEPT !.button = "incomplete"]
  /\ UNCHANGED <<engine_vars, session, refreshes, connector_vars>>

\* The button with the configuration filled in: a new connector, a new dashboard,
\* extract_data; then the main block.
ButtonRefresh ==
  /\ pc = "script"
  /\ refreshes < MaxRefreshes
  /\ \E a1 \in AuthResponses(ScriptKinds), jr \in DataResponses(ScriptKinds, ScriptJobPayloads),
        cr \in DataResponses(ScriptKinds, ScriptCandidatePayloads), now \in NowChoices :
       \E a2 \in (IF Truthy(get_jobs(NewConnector, a1, jr).conn.auth_token)
                     \/ get_jobs(NewConnector, a1, jr).raised
                  THEN {a1} ELSE AuthResponses(ScriptKinds)) :
         LET x == extract_data(NewConnector, a1, jr, a2, cr)
         IN /\ session' = StoreDashboard(session, x, refreshes + 1)
            /\ last_refresh' = [button |-> "refresh", raised |-> x.raised,
                                jobs_reported |-> x.jobs_reported,
                                candidates_reported |-> x.candidates_reported]
            /\ ShowPage(session', now)
  /\ refreshes' = refreshes + 1
  /\ UNCHANGED <<engine_vars, connector_vars>>

Next == Rerun \/ ButtonIncomplete \/ ButtonRefresh

Spec == ScriptInit /\ [][Next]_vars

\* ------------------------------------------- one connector, many fetches
ConnectorPayloads == {<<>>, WithIds(OneJob)}

ConnectorInit ==
  /\ connector = NewConnector
  /\ calls = 0
  /\ auth_posts = 0
  /\ auth_true = 0
  /\ data_gets = 0
  /\ last_call = NoCall
  /\ ScriptIdle
  /\ ResultsInit
  /\ raw_jobs = <<>>
  /\ raw_candidates = <<>>
  /\ dashboard = NewDashboard
  /\ pc = "connector"

\* The connector and the request counts after a fetch that returned f.
Called(op, auth_resp, data_resp, f) ==
  /\ connector' = f.conn
  /\ calls' = calls + 1
  /\ auth_posts' = auth_posts + f.auth_sent
  /\ auth_true' = auth_true + (IF f.auth_ok THEN 1 ELSE 0)
  /\ data_gets' = data_gets + f.get_sent
  /\ last_call' = [op |-> op,
                   auth_kind |-> IF f.auth_sent = 1 THEN auth_resp.kind ELSE "none",
                   auth_token |-> IF f.auth_sent = 1 THEN auth_resp.token ELSE NoneValue,
                   data_kind |-> IF f.get_sent = 1 THEN data_resp.kind ELSE "none",
                   result |-> f.result, raised |-> f.raised, reported |-> f.reported,
                   auth_sent |-> f.auth_sent, auth_ok |-> f.auth_ok, get_sent |-> f.get_sent,
                   authenticated_before |-> auth_true > 0]
  /\ UNCHANGED <<engine_vars, result_vars, script_vars>>

CallGetJobs ==
  /\ pc = "connector"
  /\ calls < MaxCalls
  /\ \E a \in AuthResponses(FailureKinds), r \in DataResponses(FailureKinds, ConnectorPayloads) :
       Called("get_jobs", a, r, get_jobs(connector, a, r))

CallGetCandidates ==
  /\ pc = "connector"
  /\ calls < MaxCalls
  /\ \E a \in AuthResponses(FailureKinds), r \in DataResponses(FailureKinds, ConnectorPayloads) :
       Called("get_candidates", a, r, get_candidates(connector, a, r))

CallGetWorkflowSteps ==
  /\ pc = "connector"
  /\ calls < MaxCalls
  /\ \E a \in AuthResponses(FailureKinds), r \in DataResponses(FailureKinds, ConnectorPayloads) :
       Called("get_workflow_steps", a, r, get_workflow_steps(connector, a, r))

ConnectorNext == CallGetJobs \/ CallGetCandidates \/ CallGetWorkflowSteps

SpecConnector == ConnectorInit /\ [][ConnectorNext]_vars

\* ------------------------------- properties: the connector and the script
\* The remote call of the last fetch failed: a request that ended in a network
\* error, an HTTP error status, a body that is no JSON or no JSON mapping, or an
\* authentication answer without an access_token.
RemoteFailure ==
  \/ last_call.auth_kind \in FailureKinds
  \/ last_call.auth_kind = "mapping" /\ ~Truthy(last_call.auth_token)
  \/ last_call.data_kind \in FailureKinds

\* C1: whatever way the remote call of get_jobs, get_candidates or
\* get_workflow_steps fails, the operation returns an empty sequence and reports
\* an error, and raises nothing into its caller.
C1_FailureGivesEmptyAndReport ==
  (last_call.op # "none" /\ RemoteFailure) =>
    /\ ~last_call.raised
    /\ last_call.result = <<>>
    /\ last_call.reported

\* C10: (1) no data GET is issued before an authenticate returned True, and a fetch
\* whose authenticate returned False issues none and returns an empty list; (2) once
\* an authenticate returned True no later fetch authenticates again: authenticate
\* returns True at most once and the token is non-empty from then on.
C10_AuthenticateOnceBeforeData ==
  /\ data_gets > 0 => auth_true > 0
  /\ (last_call.auth_sent = 1 /\ ~last_call.auth_ok) =>
       last_call.get_sent = 0 /\ last_call.result = <<>>
  /\ auth_true <= 1
  /\ auth_true > 0 => Truthy(connector.auth_token)
  /\ (last_call.op # "none" /\ last_call.authenticated_before) => last_call.auth_sent = 0

\* C8: after every refresh the dashboard held and shown is the one that refresh
\* fetched, never an earlier one, also when the refresh reported an auth or fetch
\* error (the dataset it could not fetch is then empty) or raised.
C8_RefreshReplacesDataset ==
  refreshes > 0 =>
    /\ session # NoneValue => session[1].gen = refreshes
    /\ page.kind = "dashboard" => page.gen = refreshes
    /\ (session # NoneValue /\ last_refresh.jobs_reported) =>
         Empty(session[1].dashboard.jobs_df[1])
    /\ (session # NoneValue /\ last_refresh.candidates_reported) =>
         Empty(session[1].dashboard.candidates_df[1])

\* C9: the page never runs an aggregate operation on a dashboard whose extract_data
\* did not complete (a frame still None), and on a held dashboard with an empty
\* jobs or candidates frame no aggregate operation raises: calculate_metrics sets
\* no key of the empty dataset (the page shows 0) and the charts over it are empty
\* figures.
C9_EmptyDatasetsAreDefined ==
  /\ session # NoneValue =>
       session[1].dashboard.jobs_df # NoneValue /\ session[1].dashboard.candidates_df # NoneValue
  /\ page.kind # "error"
  /\ page.kind = "dashboard" =>
       /\ Empty(session[1].dashboard.jobs_df[1]) =>
            /\ DOMAIN metrics \cap JobMetricKeys = {}
            /\ page.total_jobs = 0 /\ page.open_jobs = 0 /\ page.avg_time_to_fill = <<0, 1>>
            /\ position_chart = EmptyFigure
            /\ recruiter_chart = EmptyFigure
            /\ page.jobs_table = <<>>
       /\ Empty(session[1].dashboard.candidates_df[1]) =>
            /\ DOMAIN metrics \cap CandidateMetricKeys = {}
            /\ page.total_candidates = 0
            /\ timeline_chart = EmptyFigure
            /\ recruiter_chart = EmptyFigure
            /\ page.candidates_table = <<>>

\* A page over a dashboard without jobs and with a candidate: no job metric, an
\* empty position chart, a timeline of one week.
C9_Witness ==
  /\ page.kind = "dashboard"
  /\ Empty(session[1].dashboard.jobs_df[1])
  /\ ~Empty(session[1].dashboard.candidates_df[1])
  /\ position_chart = EmptyFigure
  /\ Len(timeline_chart.table) = 1
  /\ metrics["total_candidates"] = 1

====
